---- MODULE Spec2Model ----
(***************************************************************************)
(* Model of entrypoint.py: one run of main(), which downloads one          *)
(* certificate image per row of the input table with a bounded-retry,      *)
(* timeout-based loop (download_certificate), zips the downloaded files,   *)
(* uploads the archive, cleans the working directory up and reports.       *)
(* The browser, the filesystem and the object storage are the environment: *)
(* every call into them either succeeds or raises, and a file a click      *)
(* asked for lands in the working directory at any later moment, or never. *)
(***************************************************************************)
EXTENDS Integers, Sequences, FiniteSets, TLC

\* ---------------------------------------------------------------- bounds
MaxRows == 2             \* rows of the input table
MaxNameLen == 5          \* characters of a typed archive name
MaxCallRows == 1         \* rows of the table when single calls are followed

\* ------------------------------------------------------ program constants
DefaultMaxRetries == 3   \* max_retries=3
PollCount == 10          \* for _ in range(10)
PollInterval == 1        \* time.sleep(1) inside the polling loop
SettleDelay == 1         \* time.sleep(1) before the click

\* ------------------------------------------------------------ input data
\* A download link is the sequence of its '/'-separated segments.
Links == { <<"a", "x">>, <<"b", "x">>, <<"a", "y">> }

Last(s) == s[Len(s)]

\* download_link.split("/")[-1]
downloaded_file(download_link) == Last(download_link)

\* os.path.join(temp_dir, downloaded_file + ".png"): the entry of the working
\* directory the browser is expected to write.
downloaded_file_path(download_link) ==
    [stem |-> downloaded_file(download_link), ext |-> "png"]

\* os.path.join(temp_dir, zip_filename): the archive's entry of the working
\* directory (its name always ends in ".zip", see ZipName).
zip_file_path == [stem |-> "archive", ext |-> "zip"]

Paths == { downloaded_file_path(l) : l \in Links }

\* Python's None, and the value of a variable not assigned yet; both differ
\* from every path.
None == [stem |-> "None", ext |-> ""]
Unset == [stem |-> "unset", ext |-> ""]

\* Row k of the table has name k and some download link.
Row(k, link) == [name |-> k, download_link |-> link]

\* File names are sequences of characters.
DotZip == << ".", "z", "i", "p" >>
TimestampName == << "c", "e", "r", "t", "_", "T" >> \o DotZip
ZipInputs == { << >>, << "o" >>, << "o" >> \o DotZip }

\* Every name of at most MaxNameLen characters the caller can type.
NameChars == { "o", ".", "z", "i", "p" }
NameInputs == UNION { [1..n -> NameChars] : n \in 0..MaxNameLen }

\* str.endswith
EndsWith(s, suffix) ==
    /\ Len(s) >= Len(suffix)
    /\ SubSeq(s, Len(s) - Len(suffix) + 1, Len(s)) = suffix

\* Variant: ".zip" is appended to every name that is not empty.
ZipName_AlwaysAppends(input) ==
    IF input # << >> THEN input \o DotZip ELSE TimestampName

\* main, lines 201-207: the archive name from the name the caller typed.
ZipName(input) ==
    IF input # << >>
    THEN IF ~EndsWith(input, DotZip) THEN input \o DotZip ELSE input
    ELSE TimestampName

\* --------------------------------------------------------------- state
VARIABLES
    pc,                \* position of main / download_certificate / cleanup
    zip_filename,      \* main: the archive name
    max_retries,       \* download_certificate: max_retries
    nrows,             \* main: len(df), the rows of the input table
    df,                \* main: the rows df.iterrows() has yielded so far
    i,                 \* main: rows whose iteration has finished
    certificates,      \* main: paths of the downloaded files
    failed_downloads,  \* main: (name, download_link) of the failed rows
    retries,           \* download_certificate: retries
    polls,             \* download_certificate: iterations of the polling loop done
    result,            \* download_certificate: the value returned (Unset before)
    dirExists,         \* the working directory exists
    fs,                \* entries of the working directory
    driver,            \* the browser session: "none", "open", "quit"
    pending,           \* downloads asked for and not finished: <<path, row name>>
    writer,            \* per path: the row whose click wrote the file (0: not this run)
    zipMembers,        \* members written into the archive
    uploaded,          \* "no", "ok", "failed"
    todo,              \* cleanup: entries of os.listdir still to remove
    call,              \* history of the current download_certificate call
    clean,             \* history of the current cleanup call
    run,               \* history of the run
    report             \* what main printed at its end

input == << zip_filename, max_retries, nrows >>
batch == << df, i, certificates, failed_downloads >>
attempt == << retries, polls, result >>
disk == << dirExists, fs >>
browser == << driver, pending, writer >>
archive == << zipMembers, uploaded >>
sweep == << todo, clean >>

vars == << pc, input, batch, attempt, disk, browser, archive, sweep, call, run,
           report >>

\* The values of max_retries a call is made with: the default and the
\* smaller ones, 0 included.
MaxRetriesValues == 0..DefaultMaxRetries

\* History of one download_certificate call, as its log lines and driver calls
\* show it: navigations asked, lookups that found the trigger, clicks asked,
\* existence checks, time units slept, exceptions caught, lookups that timed
\* out, polling loops run dry, and the failure the last finished attempt logged.
NewCall ==
    [nav |-> 0, seen |-> 0, click |-> 0, check |-> 0, slept |-> 0,
     exc |-> 0, notfound |-> 0, dry |-> 0, reason |-> "none"]

\* History of one cleanup call: whether os.listdir returned and what it gave,
\* the entries os.remove was called on, whether os.rmdir was called, and the
\* failures logged.
NewClean ==
    [listing |-> FALSE, listed |-> {}, attempted |-> {}, rmdir |-> FALSE,
     failures |-> 0]

NewRun ==
    [calls     |-> [k \in 1..MaxRows + 1 |-> 0],  \* download_certificate calls per row
     escaped   |-> "none",          \* the exception that ended main, if any
     mkdirs    |-> 0,               \* calls of create_temp_directory
     cleanups  |-> 0,               \* calls of cleanup
     failed    |-> FALSE,           \* a removal of cleanup failed
     zipError  |-> FALSE,           \* create_zip_archive raised
     uploads   |-> 0]               \* calls of upload_to_s3

Init ==
    /\ pc = "input"
    /\ zip_filename = << >>
    /\ max_retries \in MaxRetriesValues
    /\ nrows = 0
    /\ df = << >>
    /\ i = 0
    /\ certificates = << >>
    /\ failed_downloads = << >>
    /\ retries = 0
    /\ polls = 0
    /\ result = Unset
    /\ dirExists \in BOOLEAN
    /\ fs \in (IF dirExists THEN SUBSET Paths ELSE {{}})
    /\ driver = "none"
    /\ pending = {}
    /\ writer = [p \in Paths |-> 0]
    /\ zipMembers = << >>
    /\ uploaded = "no"
    /\ todo = {}
    /\ call = NewCall
    /\ clean = NewClean
    /\ run = NewRun
    /\ report = [kind |-> "none", lines |-> << >>]

\* ------------------------------------------------- download_certificate
\* The row download_certificate is working on.
row == df[i + 1]

\* Mutant of WhileNext: the loop test is off by one (retries <= max_retries).
WhileNext_OffByOne(r) == IF r <= max_retries THEN "dl_get" ELSE "dl_fail"

\* while retries < max_retries (line 94); falling out of the loop leads to the
\* final error log and return None.
WhileNext(r) == IF r < max_retries THEN "dl_get" ELSE "dl_fail"

\* Mutant of Caught: the except clause names TimeoutException only.
Caught_OnlyTimeout(kind) == kind = "TriggerNotFound"

\* except Exception as e (line 125): what the driver raises inside the try
\* (a WebDriverException of driver.get, of the lookup or of the click, the
\* TimeoutException of the wait) is an Exception.
Caught(kind) == kind \in {"NavigationError", "TriggerNotFound", "ClickError"}

\* Mutant of ExceptRetries: the retry is counted twice.
ExceptRetries_Twice(r) == r + 2

\* retries += 1 in the except clause (line 127)
ExceptRetries(r) == r + 1

\* retries += 1 after the polling loop ran dry (line 123)
\* Variant: a round of checks that found nothing is not counted as a retry.
TimeoutRetries_Uncounted(r) == r

TimeoutRetries(r) == r + 1

\* Mutant of PollOutcome: the file is looked at only when the loop is over.
PollOutcome_WaitsOut(exists, n) ==
    IF n < PollCount THEN "again"
    ELSE IF exists THEN "found" ELSE "timed_out"

\* Mutant of PollOutcome: the loop runs once more than range(10).
PollOutcome_ElevenChecks(exists, n) ==
    IF exists THEN "found"
    ELSE IF n <= PollCount THEN "again" ELSE "timed_out"

\* One iteration of the polling loop (lines 116-120) and what follows it:
\* return at once when the file exists, go on while iterations are left,
\* else fall out of the loop.
PollOutcome(exists, n) ==
    IF exists THEN "found"
    ELSE IF n < PollCount THEN "again" ELSE "timed_out"

\* An exception of the given kind is raised inside the try of the current
\* attempt; c is the call history up to the raise.
Raise(kind, c) ==
    IF Caught(kind)
    THEN /\ retries' = ExceptRetries(retries)
         /\ pc' = WhileNext(retries')
         /\ call' = [c EXCEPT !.exc = @ + 1, !.reason = kind]
         /\ run' = run
    ELSE /\ retries' = retries
         /\ pc' = "aborted"
         /\ call' = c
         /\ run' = [run EXCEPT !.escaped = kind]

\* driver.get(download_link), line 96
DlGet(ok) ==
    /\ pc = "dl_get"
    /\ IF ok
       THEN /\ pc' = "dl_wait"
            /\ call' = [call EXCEPT !.nav = @ + 1]
            /\ UNCHANGED << retries, run >>
       ELSE Raise("NavigationError", [call EXCEPT !.nav = @ + 1])
    /\ UNCHANGED << input, batch, polls, result, disk, browser, archive, sweep,
                    report >>

\* Variant: a trigger that never became visible is clicked all the same.
DlWait_ClicksAnyway(outcome) ==
    /\ pc = "dl_wait"
    /\ CASE outcome = "visible" ->
              /\ pc' = "dl_settle"
              /\ call' = [call EXCEPT !.seen = @ + 1]
              /\ UNCHANGED << retries, run >>
         [] outcome = "timeout" ->
              /\ pc' = "dl_settle"
              /\ call' = [call EXCEPT !.notfound = @ + 1]
              /\ UNCHANGED << retries, run >>
         [] OTHER -> Raise("NavigationError", call)
    /\ UNCHANGED << input, batch, polls, result, disk, browser, archive, sweep,
                    report >>

\* WebDriverWait(driver, 10).until(visibility_of_element_located(...)), lines
\* 99-103: the trigger is seen, the wait times out, or the driver fails.
DlWait(outcome) ==
    /\ pc = "dl_wait"
    /\ CASE outcome = "visible" ->
              /\ pc' = "dl_settle"
              /\ call' = [call EXCEPT !.seen = @ + 1]
              /\ UNCHANGED << retries, run >>
         [] outcome = "timeout" ->
              Raise("TriggerNotFound", [call EXCEPT !.notfound = @ + 1])
         [] OTHER -> Raise("NavigationError", call)
    /\ UNCHANGED << input, batch, polls, result, disk, browser, archive, sweep,
                    report >>

\* time.sleep(1), line 106
DlSettle ==
    /\ pc = "dl_settle"
    /\ pc' = "dl_click"
    /\ call' = [call EXCEPT !.slept = @ + SettleDelay]
    /\ UNCHANGED << input, batch, attempt, disk, browser, archive, sweep, run,
                    report >>

\* download_button.click(), line 108: a click that does not raise makes the
\* browser start writing the file.
DlClick(ok) ==
    /\ pc = "dl_click"
    /\ IF ok
       THEN /\ pc' = "dl_poll"
            /\ call' = [call EXCEPT !.click = @ + 1]
            /\ pending' = pending \cup
                            {<< downloaded_file_path(row.download_link), row.name >>}
            /\ UNCHANGED << retries, run >>
       ELSE /\ Raise("ClickError", [call EXCEPT !.click = @ + 1])
            /\ pending' = pending
    /\ polls' = 0
    /\ UNCHANGED << input, batch, result, disk, driver, writer, archive, sweep,
                    report >>

\* One iteration of the polling loop, lines 116-123: sleep, then look for the
\* file; the tenth miss falls out of the loop, logs the timeout and counts a retry.
DlPoll ==
    /\ pc = "dl_poll"
    /\ LET path == downloaded_file_path(row.download_link)
           n == polls + 1
           out == PollOutcome(path \in fs, n)
           c == [call EXCEPT !.slept = @ + PollInterval, !.check = @ + 1]
       IN CASE out = "found" ->
                 /\ result' = path
                 /\ pc' = "record"
                 /\ polls' = 0
                 /\ call' = c
                 /\ retries' = retries
            [] out = "again" ->
                 /\ result' = result
                 /\ pc' = "dl_poll"
                 /\ polls' = n
                 /\ call' = c
                 /\ retries' = retries
            [] OTHER ->
                 /\ result' = result
                 /\ retries' = TimeoutRetries(retries)
                 /\ pc' = WhileNext(retries')
                 /\ polls' = 0
                 /\ call' = [c EXCEPT !.dry = @ + 1, !.reason = "DownloadTimeout"]
    /\ UNCHANGED << input, batch, disk, browser, archive, sweep, run, report >>

\* logging.error(...); return None, lines 129-132
DlFail ==
    /\ pc = "dl_fail"
    /\ result' = None
    /\ pc' = "record"
    /\ UNCHANGED << input, batch, retries, polls, disk, browser, archive, sweep,
                    call, run, report >>

\* The browser finishes a download it was asked for, at any moment while the
\* session is open: the file lands in the working directory under the expected
\* name, unless a file of that name is there already (the browser then keeps
\* the old file and saves under another name).
FileAppears(p, n) ==
    /\ << p, n >> \in pending
    /\ dirExists
    /\ driver = "open"
    /\ pc \notin {"done", "aborted"}
    /\ pending' = pending \ {<< p, n >>}
    /\ IF p \in fs
       THEN UNCHANGED << fs, writer >>
       ELSE /\ fs' = fs \cup {p}
            /\ writer' = [writer EXCEPT ![p] = n]
    /\ UNCHANGED << pc, input, batch, attempt, dirExists, driver, archive, sweep,
                    call, run, report >>

\* ------------------------------------------------------------------ main
\* zip_filename = input(...) and its normalisation, lines 200-207
MainInput(typed) ==
    /\ pc = "input"
    /\ zip_filename' = typed
    /\ pc' = "name"
    /\ UNCHANGED << max_retries, nrows, batch, attempt, disk, browser, archive,
                    sweep, call, run, report >>

\* main, lines 201-207.
MainZipName ==
    /\ pc = "name"
    /\ zip_filename' = ZipName(zip_filename)
    /\ pc' = "mkdir"
    /\ UNCHANGED << max_retries, nrows, batch, attempt, disk, browser, archive,
                    sweep, call, run, report >>

\* create_temp_directory (os.makedirs(temp_dir, exist_ok=True): an existing
\* directory is kept with what it holds) and setup_s3_client, lines 209-210
CreateTempDirectory ==
    /\ pc = "mkdir"
    /\ dirExists' = TRUE
    /\ run' = [run EXCEPT !.mkdirs = @ + 1]
    /\ pc' = "setup_driver"
    /\ UNCHANGED << input, batch, attempt, fs, browser, archive, sweep, call,
                    report >>

\* An exception leaves main: nothing in main catches it.
Escape(kind) ==
    /\ pc' = "aborted"
    /\ run' = [run EXCEPT !.escaped = kind]

\* setup_web_driver, line 211
SetupWebDriver(ok) ==
    /\ pc = "setup_driver"
    /\ IF ok
       THEN /\ driver' = "open"
            /\ pc' = "read_csv"
            /\ run' = run
       ELSE /\ driver' = driver
            /\ Escape("DriverStartError")
    /\ UNCHANGED << input, batch, attempt, disk, pending, writer, archive, sweep,
                    call, report >>

\* df = pd.read_csv(CSV_FILE_PATH), line 212, and the two empty lists. The
\* table has n rows; what each row holds is seen when iterrows yields it.
ReadCsv(ok, n) ==
    /\ pc = "read_csv"
    /\ IF ok
       THEN /\ nrows' = n
            /\ pc' = "loop"
            /\ run' = run
       ELSE /\ nrows' = nrows
            /\ Escape("InputUnreadable")
    /\ certificates' = << >>
    /\ failed_downloads' = << >>
    /\ UNCHANGED << zip_filename, max_retries, df, i, attempt, disk, browser,
                    archive, sweep, call, report >>

\* for _, row in df.iterrows(): the next row and its call of
\* download_certificate (retries = 0 and the first test of the while), or the
\* end of the loop.
MainLoop(link) ==
    /\ pc = "loop"
    /\ IF i < nrows
       THEN /\ df' = Append(df, Row(i + 1, link))
            /\ retries' = 0
            /\ pc' = WhileNext(0)
            /\ call' = NewCall
            /\ run' = [run EXCEPT !.calls[i + 1] = @ + 1]
       ELSE /\ pc' = "zip"
            /\ UNCHANGED << df, retries, call, run >>
    /\ UNCHANGED << input, i, certificates, failed_downloads, polls, result, disk,
                    browser, archive, sweep, report >>

\* if certificate_path: (line 222): None is falsy, a path is a non-empty string.
Truthy(certificate_path) == certificate_path # None

\* Mutant of Recorded: a failed row is skipped instead of recorded.
Recorded_DropsFailure(certificate_path, r) ==
    IF Truthy(certificate_path)
    THEN << Append(certificates, certificate_path), failed_downloads >>
    ELSE << certificates, failed_downloads >>

\* lines 222-225: the outcome goes to one of the two lists.
Recorded(certificate_path, r) ==
    IF Truthy(certificate_path)
    THEN << Append(certificates, certificate_path), failed_downloads >>
    ELSE << certificates, Append(failed_downloads, << r.name, r.download_link >>) >>

\* The call returned: record its outcome and go to the next row.
MainRecord ==
    /\ pc = "record"
    /\ certificates' = Recorded(result, row)[1]
    /\ failed_downloads' = Recorded(result, row)[2]
    /\ i' = i + 1
    /\ result' = Unset
    /\ retries' = 0
    /\ call' = NewCall
    /\ pc' = "loop"
    /\ UNCHANGED << input, df, polls, disk, browser, archive, sweep, run, report >>

\* The members zip_file.write puts into the archive, lines 149-150.
Members(paths) == paths

\* create_zip_archive, line 227: a failing write leaves main with the archive
\* file created or not.
\* Variant: the archive error is logged and main goes on to the upload.
CreateZipArchive_Swallows(ok, created) ==
    /\ pc = "zip"
    /\ IF ok /\ dirExists /\ \A k \in 1..Len(certificates) : certificates[k] \in fs
       THEN /\ created
            /\ zipMembers' = Members(certificates)
            /\ fs' = fs \cup {zip_file_path}
            /\ run' = run
       ELSE /\ zipMembers' = << >>
            /\ fs' = IF created /\ dirExists THEN fs \cup {zip_file_path} ELSE fs
            /\ run' = [run EXCEPT !.zipError = TRUE]
    /\ pc' = "upload"
    /\ UNCHANGED << input, batch, attempt, dirExists, browser, uploaded, sweep,
                    call, report >>

CreateZipArchive(ok, created) ==
    /\ pc = "zip"
    /\ IF ok /\ dirExists /\ \A k \in 1..Len(certificates) : certificates[k] \in fs
       THEN /\ created
            /\ zipMembers' = Members(certificates)
            /\ fs' = fs \cup {zip_file_path}
            /\ pc' = "upload"
            /\ run' = run
       ELSE /\ zipMembers' = << >>
            /\ fs' = IF created /\ dirExists THEN fs \cup {zip_file_path} ELSE fs
            /\ pc' = "aborted"
            /\ run' = [run EXCEPT !.escaped = "ArchiveWriteError",
                                  !.zipError = TRUE]
    /\ UNCHANGED << input, batch, attempt, dirExists, browser, uploaded, sweep,
                    call, report >>

\* upload_to_s3, line 228: the exception of a failed upload is caught and logged.
UploadToS3(ok) ==
    /\ pc = "upload"
    /\ uploaded' = IF ok THEN "ok" ELSE "failed"
    /\ run' = [run EXCEPT !.uploads = @ + 1]
    /\ pc' = "cleanup_zip"
    /\ UNCHANGED << input, batch, attempt, disk, browser, zipMembers, sweep, call,
                    report >>

\* --------------------------------------------------------------- cleanup
\* os.remove(zip_file_path) in its own try, lines 184-188
CleanupZip(ok) ==
    /\ pc = "cleanup_zip"
    /\ IF ok /\ zip_file_path \in fs
       THEN /\ fs' = fs \ {zip_file_path}
            /\ clean' = [NewClean EXCEPT !.attempted = {zip_file_path}]
            /\ run' = [run EXCEPT !.cleanups = @ + 1]
       ELSE /\ fs' = fs
            /\ clean' = [NewClean EXCEPT !.attempted = {zip_file_path},
                                         !.failures = 1]
            /\ run' = [run EXCEPT !.cleanups = @ + 1, !.failed = TRUE]
    /\ pc' = "cleanup_list"
    /\ UNCHANGED << input, batch, attempt, dirExists, browser, archive, todo, call,
                    report >>

\* os.listdir(temp_dir), line 191, inside the second try
CleanupList(ok) ==
    /\ pc = "cleanup_list"
    /\ IF ok /\ dirExists
       THEN /\ todo' = fs
            /\ pc' = "cleanup_rm"
            /\ clean' = [clean EXCEPT !.listing = TRUE, !.listed = fs]
            /\ run' = run
       ELSE /\ todo' = {}
            /\ pc' = "quit"
            /\ clean' = [clean EXCEPT !.failures = @ + 1]
            /\ run' = [run EXCEPT !.failed = TRUE]
    /\ UNCHANGED << input, batch, attempt, disk, browser, archive, call, report >>

\* Where the second try goes after an os.remove of the loop raised, rest being
\* the entries not yet visited: the except clause of line 195 ends the loop and
\* skips os.rmdir.
AfterRemoveError(rest) == [todo |-> {}, pc |-> "quit"]

\* os.remove(os.path.join(temp_dir, file_path)), line 192, for the next entry
\* of the listing (os.listdir gives the entries in arbitrary order).
CleanupRemove(f, ok) ==
    /\ pc = "cleanup_rm"
    /\ f \in todo
    /\ IF ok /\ f \in fs
       THEN /\ fs' = fs \ {f}
            /\ todo' = todo \ {f}
            /\ pc' = pc
            /\ clean' = [clean EXCEPT !.attempted = @ \cup {f}]
            /\ run' = run
       ELSE /\ fs' = fs
            /\ todo' = AfterRemoveError(todo \ {f}).todo
            /\ pc' = AfterRemoveError(todo \ {f}).pc
            /\ clean' = [clean EXCEPT !.attempted = @ \cup {f}, !.failures = @ + 1]
            /\ run' = [run EXCEPT !.failed = TRUE]
    /\ UNCHANGED << input, batch, attempt, dirExists, browser, archive, call,
                    report >>

\* Mutant of CleanupRmdir: cleanup empties the directory and leaves it there.
CleanupRmdir_Skipped(ok) ==
    /\ pc = "cleanup_rm"
    /\ todo = {}
    /\ pc' = "quit"
    /\ UNCHANGED << input, batch, attempt, disk, browser, archive, sweep, call,
                    run, report >>

\* os.rmdir(temp_dir), line 193, after the loop: it fails on a directory that
\* is not empty.
CleanupRmdir(ok) ==
    /\ pc = "cleanup_rm"
    /\ todo = {}
    /\ IF ok /\ fs = {}
       THEN /\ dirExists' = FALSE
            /\ clean' = [clean EXCEPT !.rmdir = TRUE]
            /\ run' = run
       ELSE /\ dirExists' = dirExists
            /\ clean' = [clean EXCEPT !.rmdir = TRUE, !.failures = @ + 1]
            /\ run' = [run EXCEPT !.failed = TRUE]
    /\ pc' = "quit"
    /\ UNCHANGED << input, batch, attempt, fs, browser, archive, todo, call,
                    report >>

\* ------------------------------------------------------- the end of main
\* driver.quit(), line 230: the browser ends and with it the downloads it had
\* not finished. cleanup has returned; its history ends here.
DriverQuit ==
    /\ pc = "quit"
    /\ driver' = "quit"
    /\ pending' = {}
    /\ clean' = NewClean
    /\ pc' = "bucket"
    /\ UNCHANGED << input, batch, attempt, disk, writer, archive, todo, call, run,
                    report >>

\* setup_s3_client().get_bucket_location(...), line 233, outside any try
GetBucketLocation(ok) ==
    /\ pc = "bucket"
    /\ IF ok
       THEN /\ pc' = "report"
            /\ run' = run
       ELSE Escape("BucketLocationError")
    /\ UNCHANGED << input, batch, attempt, disk, browser, archive, sweep, call,
                    report >>

\* The lines of the failure list, lines 240-247: err_message is formatted once,
\* from main's variables name and download_link as the batch loop left them
\* (the last row), and emitted once per element of failed_downloads.
FailureLines ==
    [k \in 1..Len(failed_downloads) |->
        << df[Len(df)].name, df[Len(df)].download_link >>]

\* lines 238-252
Report ==
    /\ pc = "report"
    /\ report' = IF failed_downloads # << >>
                 THEN [kind |-> "failures", lines |-> FailureLines]
                 ELSE [kind |-> "success", lines |-> << zip_filename >>]
    /\ pc' = "done"
    /\ UNCHANGED << input, batch, attempt, disk, browser, archive, sweep, call,
                    run >>

\* The steps of the program itself, on a table of at most rows rows.
ProgramStep(rows) ==
    \/ \E typed \in ZipInputs : MainInput(typed)
    \/ MainZipName
    \/ CreateTempDirectory
    \/ \E ok \in BOOLEAN : SetupWebDriver(ok)
    \/ \E ok \in BOOLEAN, n \in 0..rows : ReadCsv(ok, n)
    \/ \E link \in Links : MainLoop(link)
    \/ \E ok \in BOOLEAN : DlGet(ok)
    \/ \E outcome \in {"visible", "timeout", "raise"} : DlWait(outcome)
    \/ DlSettle
    \/ \E ok \in BOOLEAN : DlClick(ok)
    \/ DlPoll
    \/ DlFail
    \/ MainRecord
    \/ \E ok \in BOOLEAN, created \in BOOLEAN : CreateZipArchive(ok, created)
    \/ \E ok \in BOOLEAN : UploadToS3(ok)
    \/ \E ok \in BOOLEAN : CleanupZip(ok)
    \/ \E ok \in BOOLEAN : CleanupList(ok)
    \/ \E f \in Paths \cup {zip_file_path}, ok \in BOOLEAN : CleanupRemove(f, ok)
    \/ \E ok \in BOOLEAN : CleanupRmdir(ok)
    \/ DriverQuit
    \/ \E ok \in BOOLEAN : GetBucketLocation(ok)
    \/ Report

\* ... and the browser writing a file it was asked for.
Next ==
    \/ ProgramStep(MaxRows)
    \/ \E p \in Paths, n \in 1..MaxRows : FileAppears(p, n)

Spec == Init /\ [][Next]_vars

\* The same program on the short tables that are enough to follow one call
\* of download_certificate from its start to its return.
NextCall ==
    \/ ProgramStep(MaxCallRows)
    \/ \E p \in Paths, n \in 1..MaxCallRows : FileAppears(p, n)

\* The interpreter keeps executing main: every call main makes returns or
\* raises (the waits of lines 99-103 and 116-117 are bounded), so a step of
\* the program that can be taken is taken.  The browser owes nothing.
FairSpec == Init /\ [][NextCall]_vars /\ WF_vars(ProgramStep(MaxCallRows))

\* The start of main alone, lines 200-209, over every name the caller can type.
NextName ==
    \/ pc = "input" /\ \E typed \in NameInputs : MainInput(typed)
    \/ MainZipName
    \/ CreateTempDirectory

SpecName == Init /\ [][NextName]_vars

\* ================================================================ claims
Range(f) == { f[k] : k \in DOMAIN f }

DlPcs == {"dl_get", "dl_wait", "dl_settle", "dl_click", "dl_poll", "dl_fail"}

\* The exceptions raised inside the try of download_certificate.
AttemptErrors == {"NavigationError", "TriggerNotFound", "ClickError"}

\* The path the current call polls for.
ExpectedPath == downloaded_file_path(row.download_link)

\* main has left the batch loop.
AfterLoop ==
    \/ pc \in {"zip", "upload", "cleanup_zip", "cleanup_list", "cleanup_rm",
               "quit", "bucket", "report", "done"}
    \/ pc = "aborted" /\ run.escaped \in {"ArchiveWriteError", "BucketLocationError"}

\* C1: one call of download_certificate returns exactly one outcome, the
\* expected file's path or None, whatever the driver and the filesystem do:
\* nothing is returned while the call runs, and no exception raised inside an
\* attempt leaves the call.
C1_OneOutcome ==
    /\ pc \in DlPcs => result = Unset
    /\ pc = "record" => result \in {None, ExpectedPath}
    /\ run.escaped \notin AttemptErrors

\* A call that caught two exceptions and then returned a path.
C1_Witness == pc = "record" /\ call.exc >= 2 /\ result = ExpectedPath

\* C2: a call with max_retries >= 1 in which the trigger was never seen returns
\* None after exactly max_retries navigations and no click; when every attempt
\* ended in the lookup's timeout, the failure logged is TriggerNotFound.
C2_TriggerNeverVisible ==
    /\ (pc = "record" /\ max_retries >= 1 /\ call.seen = 0) =>
           /\ result = None
           /\ call.nav = max_retries
           /\ call.click = 0
    /\ (pc = "record" /\ max_retries >= 1 /\ call.seen = 0
          /\ call.notfound = call.nav) =>
           call.reason = "TriggerNotFound"

\* The default three attempts, each ended by the lookup's timeout.
C2_Witness ==
    /\ pc = "record"
    /\ max_retries = DefaultMaxRetries
    /\ call.notfound = DefaultMaxRetries
    /\ result = None

\* C3: a check of the polling loop that finds the expected file returns its
\* path in that very step, after that check's one sleep, with no navigation
\* and no retry consumed; and nothing of the call happens after the return.
C3_ReturnsAtOnce ==
    [][ /\ (pc = "dl_poll" /\ call'.check = call.check + 1 /\ ExpectedPath \in fs) =>
              /\ pc' = "record"
              /\ result' = ExpectedPath
              /\ retries' = retries
              /\ call'.nav = call.nav
              /\ call'.slept = call.slept + PollInterval
        /\ (pc = "record" /\ pc' = "record") => (call' = call /\ retries' = retries)
      ]_vars

\* The file found at the fourth check of the second attempt.
C3_Witness ==
    /\ pc = "record"
    /\ result = ExpectedPath
    /\ retries = 1
    /\ call.dry = 1
    /\ call.check = PollCount + 4

\* C4: an attempt checks for the file at most PollCount times, one check per
\* PollInterval slept; the PollCount-th miss times the attempt out, which
\* counts exactly one retry, restarts from navigation when attempts remain and
\* otherwise ends the call with None and the failure DownloadTimeout logged.
C4_PollBudget ==
    /\ [](/\ polls < PollCount
          /\ call.check <= PollCount * call.click
          /\ call.slept = SettleDelay * (call.seen - (IF pc = "dl_settle" THEN 1 ELSE 0))
                            + PollInterval * call.check)
    /\ [][ /\ (pc = "dl_poll" /\ polls = PollCount - 1 /\ ExpectedPath \notin fs
                 /\ call'.check = call.check + 1) =>
                 /\ retries' = retries + 1
                 /\ call'.reason = "DownloadTimeout"
                 /\ call'.dry = call.dry + 1
                 /\ pc' = IF retries' < max_retries THEN "dl_get" ELSE "dl_fail"
           /\ (pc = "dl_fail" /\ pc' = "record") => (result' = None /\ call' = call)
         ]_vars

\* Three attempts, each polled dry: thirty checks, then None.
C4_Witness ==
    /\ pc = "record"
    /\ result = None
    /\ call.dry = DefaultMaxRetries
    /\ call.check = PollCount * DefaultMaxRetries
    /\ call.reason = "DownloadTimeout"

\* C5: an exception raised by the navigation, the lookup or the click ends
\* the attempt and counts exactly one retry; the call goes on with a new
\* navigation when attempts remain, and the exception never leaves the call.
C5_ExceptionConsumesOneRetry ==
    /\ [](run.escaped \notin AttemptErrors)
    /\ [][ call'.exc = call.exc + 1 =>
             /\ pc \in {"dl_get", "dl_wait", "dl_click"}
             /\ retries' = retries + 1
             /\ pc' = IF retries' < max_retries THEN "dl_get" ELSE "dl_fail"
         ]_vars

\* Back at the navigation after a second exception, raised by the click.
C5_Witness ==
    /\ pc = "dl_get"
    /\ call.exc = 2
    /\ retries = 2
    /\ call.reason = "ClickError"

\* The rows whose iteration is over, split by whether failed_downloads names them.
RowFailed(r) == << r.name, r.download_link >> \in Range(failed_downloads)
RowsDone == SubSeq(df, 1, i)
FailedRows == SelectSeq(RowsDone, RowFailed)
SucceededRows == SelectSeq(RowsDone, LAMBDA r : ~RowFailed(r))

\* C6: the batch loop calls download_certificate exactly once per row, records
\* each finished row in exactly one of certificates and failed_downloads, and
\* leaves the loop only when every row is done.
C6_EveryRowOnce ==
    /\ \A k \in 1..MaxRows + 1 :
          run.calls[k] = IF k <= i \/ (k = i + 1 /\ pc \in DlPcs \cup {"record"})
                         THEN 1 ELSE 0
    /\ Len(certificates) + Len(failed_downloads) = i
    /\ failed_downloads =
          [k \in 1..Len(FailedRows) |->
              << FailedRows[k].name, FailedRows[k].download_link >>]
    /\ certificates =
          [k \in 1..Len(SucceededRows) |->
              downloaded_file_path(SucceededRows[k].download_link)]
    /\ AfterLoop => i = nrows

\* Two rows, the first failed and the second succeeded.
C6_Witness ==
    /\ pc = "zip"
    /\ nrows = 2
    /\ Len(failed_downloads) = 1
    /\ failed_downloads[1][1] = 1
    /\ Len(certificates) = 1

\* The names of the failed rows.
FailedNames == { failed_downloads[k][1] : k \in DOMAIN failed_downloads }

\* C7: the archive create_zip_archive built holds exactly the paths of the
\* succeeded rows, and no file written by the click of a failed row.
C7_ArchiveExactlySucceeded ==
    pc = "upload" =>
        /\ Range(zipMembers) = Range(certificates)
        /\ \A p \in Range(zipMembers) : writer[p] \notin FailedNames

\* C8: a run that called create_temp_directory has called cleanup exactly once
\* when it ends, however it ends.
C8_CleanupAlways ==
    (pc \in {"done", "aborted"} /\ run.mkdirs = 1) => run.cleanups = 1

\* C9: when cleanup returns, os.remove was tried on every entry os.listdir
\* gave and os.rmdir was tried, whichever removals failed.
C9_CleanupExhaustive ==
    (pc = "quit" /\ clean.listing) =>
        /\ clean.listed \subseteq clean.attempted
        /\ clean.rmdir

\* C10: after a cleanup none of whose removals failed, the archive is gone,
\* the working directory holds nothing and is gone itself.
C10_CleanupRemovesAll ==
    (pc \in {"quit", "bucket", "report", "done"} /\ ~run.failed) =>
        /\ zip_file_path \notin fs
        /\ fs = {}
        /\ ~dirExists

\* Such a cleanup, after a failed upload, of a run with one succeeded and
\* one failed row.
C10_Witness ==
    /\ pc = "quit"
    /\ ~run.failed
    /\ uploaded = "failed"
    /\ Len(certificates) = 1
    /\ Len(failed_downloads) = 1
    /\ certificates[1] \in clean.attempted
    /\ zip_file_path \in clean.attempted
    /\ ~dirExists

\* main has ended: it returned or an exception left it.
Ended == pc \in {"done", "aborted"}

\* C11: on a run whose upload failed, the success message with the object's
\* address is never printed.
C11_NoAddressAfterFailedUpload ==
    uploaded = "failed" => report.kind # "success"

\* C12: the failure list printed at the end has one line per element of
\* failed_downloads, each with that element's own name and download link.
C12_FailureListNamesFailedItems ==
    report.kind = "failures" => report.lines = failed_downloads

\* C13: a run in which the upload or a removal of cleanup failed still goes
\* through cleanup and driver.quit() and ends with its final report printed.
C13_ReportAfterUploadOrCleanupError ==
    (Ended /\ (uploaded = "failed" \/ run.failed)) =>
        /\ run.cleanups = 1
        /\ driver = "quit"
        /\ report.kind # "none"

\* C14: on a run in which create_zip_archive raised, main is left at once:
\* upload_to_s3 is never called, nothing is stored and no address is printed.
C14_NoUploadAfterArchiveError ==
    run.zipError =>
        /\ pc = "aborted"
        /\ run.uploads = 0
        /\ uploaded = "no"
        /\ report.kind = "none"

C14_Witness ==
    /\ run.zipError
    /\ Len(certificates) >= 1
    /\ zip_file_path \in fs

\* C15: the archive name main works with ends in ".zip": a typed name that
\* ends in ".zip" is kept, any other non-empty name gets ".zip" appended
\* once, the empty name becomes certificates_<timestamp>.zip; and the name
\* is final before the working directory is created or a file is touched.
C15_ArchiveNameNormalised ==
    [][ /\ pc = "name" =>
            /\ EndsWith(zip_filename', DotZip)
            /\ EndsWith(zip_filename, DotZip) => zip_filename' = zip_filename
            /\ (zip_filename # << >> /\ ~EndsWith(zip_filename, DotZip)) =>
                   zip_filename' = zip_filename \o DotZip
            /\ zip_filename = << >> => zip_filename' = TimestampName
        /\ pc \in {"input", "name"} =>
            /\ run'.mkdirs = run.mkdirs
            /\ disk' = disk
        /\ pc \notin {"input", "name"} =>
            /\ EndsWith(zip_filename, DotZip)
            /\ zip_filename' = zip_filename ]_vars

\* The typed name ".zip" was kept as it is and the directory then created.
C15_Witness ==
    /\ pc = "setup_driver"
    /\ run.mkdirs = 1
    /\ zip_filename = DotZip

\* pd.read_csv returned a table without rows.
EmptyTable ==
    /\ nrows = 0
    /\ pc \notin {"input", "name", "mkdir", "setup_driver", "read_csv"}
    /\ run.escaped \notin {"DriverStartError", "InputUnreadable"}

\* C16: on a table without rows download_certificate is never called, both
\* result lists stay empty, the archive is built without members and
\* uploaded once, cleanup runs once, and the run ends with its final report
\* printed (unless the archive could not be written).
C16_EmptyTableReachesReport ==
    EmptyTable =>
        /\ \A k \in DOMAIN run.calls : run.calls[k] = 0
        /\ pc \notin DlPcs \cup {"record"}
        /\ df = << >> /\ certificates = << >> /\ failed_downloads = << >>
        /\ zipMembers = << >>
        /\ pc = "upload" => zip_file_path \in fs
        /\ run.uploads = IF pc \in {"loop", "zip", "upload"} \/ run.zipError
                         THEN 0 ELSE 1
        /\ run.cleanups = IF pc \in {"loop", "zip", "upload", "cleanup_zip"}
                               \/ run.zipError
                          THEN 0 ELSE 1
        /\ (Ended /\ ~run.zipError) =>
               report = [kind |-> "success", lines |-> << zip_filename >>]

\* C17: every attempt goes navigate, wait for the trigger, settle, click,
\* poll, in that order: the settle follows a trigger that was seen, the click
\* follows the settle, polling follows a click that did not raise, and a
\* counted retry goes back to the navigation (or ends the call).
C17_AttemptOrder ==
    [][ /\ (pc' = "dl_wait" /\ pc # "dl_wait") =>
               (pc = "dl_get" /\ call'.nav = call.nav + 1 /\ retries' = retries)
        /\ (pc' = "dl_settle" /\ pc # "dl_settle") =>
               (pc = "dl_wait" /\ call'.seen = call.seen + 1 /\ retries' = retries)
        /\ (pc' = "dl_click" /\ pc # "dl_click") =>
               (pc = "dl_settle" /\ call'.slept = call.slept + SettleDelay)
        /\ (pc' = "dl_poll" /\ pc # "dl_poll") =>
               (pc = "dl_click" /\ call'.click = call.click + 1 /\ retries' = retries)
        /\ call'.nav > call.nav => pc = "dl_get"
        /\ call'.seen > call.seen => pc = "dl_wait"
        /\ call'.click > call.click => pc = "dl_click"
        /\ call'.check > call.check => pc = "dl_poll"
        /\ (pc' = "dl_get" /\ pc \notin {"loop", "dl_get"}) =>
               (pc \in DlPcs /\ retries' = retries + 1)
        /\ (pc \in DlPcs /\ retries' # retries) =>
               pc' \in {"dl_get", "dl_fail"} ]_vars

\* A second attempt, after a first one that polled in vain, has gone through
\* navigation, trigger, settle and click again and is polling.
C17_Witness ==
    /\ pc = "dl_poll"
    /\ retries = 1
    /\ call.dry = 1
    /\ call.nav = 2 /\ call.seen = 2 /\ call.click = 2
    /\ call.slept = 2 * SettleDelay + PollCount * PollInterval

\* C18: a call of download_certificate ends, for every max_retries >= 0: it
\* navigates at most max_retries times and looks for the file at most
\* 10 * max_retries times, its retry counter never goes down and never
\* passes max_retries, and with max_retries = 0 it returns None without
\* having navigated.
C18_BoundedRetries ==
    /\ [](pc \in DlPcs \cup {"record"} =>
            /\ retries <= max_retries
            /\ call.nav <= max_retries
            /\ call.check <= PollCount * max_retries
            /\ (max_retries = 0 /\ pc = "record") =>
                   (result = None /\ call.nav = 0 /\ call.check = 0))
    /\ [][ (pc \in DlPcs) => (retries' >= retries) ]_vars
    /\ (pc \in DlPcs) ~> (pc = "record")

\* A call with max_retries = 3 that used all it may: three navigations and
\* thirty checks, then None.
C18_Witness ==
    /\ pc = "record"
    /\ result = None
    /\ max_retries = DefaultMaxRetries
    /\ retries = max_retries
    /\ call.nav = max_retries
    /\ call.check = PollCount * max_retries

\* C19: a call returns a path only for a file this row's own click wrote.
C19_OwnFileOnly ==
    (pc = "record" /\ result = ExpectedPath) => writer[ExpectedPath] = row.name

\* C20: when a run that started the browser ends, however it ends, the
\* browser has been quit.
C20_BrowserQuitOnEveryRun ==
    (Ended /\ driver # "none") => driver = "quit"

====
